---- MODULE Spec2Model ----
(***************************************************************************)
(* A network of N Ben-Or consensus nodes (src/src/nodes/node.ts).  Every   *)
(* node is one call of node(nodeId, N, F, initialValue, isFaulty, ...):    *)
(* its closure variables are the per-node variables below, its HTTP        *)
(* handlers and the resumption points of the async function benOrStep are  *)
(* the actions.  A node is single threaded: a handler, and the code        *)
(* between two awaits of benOrStep, runs atomically.                       *)
(***************************************************************************)
EXTENDS Integers, FiniteSets, Sequences, TLC

\* ---------------------------------------------------------------- bounds
MaxN == 2
MaxRound == 1
MaxInject == 1
ScenarioMaxRound == 0
ResolveN == 3

\* ------------------------------------------------------ program constants
ForcedK == 15
ForcedKFloor == 10
NullK == -1
Null == "null"
Unknown == "?"
Values == {"0", "1", Unknown}
Bits == {"0", "1"}

VARIABLES
    N,               \* total number of nodes (parameter N of every node)
    F,               \* configured number of faulty nodes (parameter F)
    isFaulty,        \* isFaulty[i]: parameter isFaulty of node i
    initialValue,    \* initialValue[i]: parameter initialValue of node i
    state,           \* state[i]: the NodeState object {killed, x, decided, k}
    messages,        \* messages[i]: Record<number, {r, p}>, the message store
    consensusRunning,\* consensusRunning[i]
    stepTimeout,     \* stepTimeout[i]: "null", or a handle "pending"/"fired"
    pc,              \* pc[i]: where node i's benOrStep invocation is suspended
    cursor,          \* cursor[i]: peer index of the fetch benOrStep awaits
    answered,        \* answered[i]: the peer's handler has run on that fetch's
                     \* request; its response has not resumed node i yet
    valueToPropose,  \* valueToPropose[i]: local of benOrStep across the P phase
    injected,        \* number of messages posted from outside the N nodes
    reentered,       \* benOrStep was invoked while an invocation was suspended
    emitted          \* emitted[i]: the calls of broadcastMessage by benOrStep,
                     \* as a bag of <<round, phase>>

vars == <<N, F, isFaulty, initialValue, state, messages, consensusRunning,
          stepTimeout, pc, cursor, answered, valueToPropose, injected, reentered,
          emitted>>

Nodes == 0 .. (N - 1)

\* F > N/2 with `/` real division
FaultBoundViolated == 2 * F > N

\* ------------------------------------------------------------ the store
\* An array of messages is kept as a bag (message -> copies): the code only
\* filters by value and takes the length.
EmptyBag == [m \in {} |-> 0]
EmptyBucket == [r |-> EmptyBag, p |-> EmptyBag]
EmptyStore == [kk \in {} |-> EmptyBucket]

Push(bag, m) ==
    IF m \in DOMAIN bag
    THEN [bag EXCEPT ![m] = @ + 1]
    ELSE [x \in DOMAIN bag \cup {m} |-> IF x = m THEN 1 ELSE bag[x]]

RECURSIVE SumCopies(_, _)
SumCopies(bag, S) ==
    IF S = {} THEN 0
    ELSE LET m == CHOOSE x \in S : TRUE
         IN bag[m] + SumCopies(bag, S \ {m})

\* arr.filter(msg => msg.v === v).length
CountV(bag, v) == SumCopies(bag, {m \in DOMAIN bag : m.v = v})

\* if (!messages[kk]) messages[kk] = { r: [], p: [] }
Ensure(store, kk) ==
    IF kk \in DOMAIN store THEN store
    ELSE [x \in DOMAIN store \cup {kk} |-> IF x = kk THEN EmptyBucket ELSE store[x]]

PushR(store, kk, m) == [store EXCEPT ![kk].r = Push(@, m)]
PushP(store, kk, m) == [store EXCEPT ![kk].p = Push(@, m)]

Message(type, nodeId, kk, v) == [type |-> type, nodeId |-> nodeId, k |-> kk, v |-> v]

\* ------------------------------------------------------------- the state
InitDecidedTrue(i) ==
    IF isFaulty[i] THEN Null ELSE IF FaultBoundViolated THEN "true" ELSE "false"

\* decided: isFaulty ? null : (F > N/2 ? false : false)
InitDecided(i) == IF isFaulty[i] THEN Null ELSE "false"
InitK(i) == IF isFaulty[i] THEN NullK ELSE IF FaultBoundViolated THEN ForcedK ELSE 0
InitX(i) == IF isFaulty[i] THEN Null ELSE initialValue[i]

InitState(i) ==
    [killed |-> FALSE, x |-> InitX(i), decided |-> InitDecided(i), k |-> InitK(i)]

\* !state.k : null and 0 are falsy
Falsy(kk) == kk = NullK \/ kk = 0

\* if (!state.k || state.k <= 10) state.k = 15
ForceK(kk) == IF Falsy(kk) \/ kk <= ForcedKFloor THEN ForcedK ELSE kk

\* The closure of node i, as one record the sequential code transforms.
Closure(i) ==
    [state |-> state[i], messages |-> messages[i],
     consensusRunning |-> consensusRunning[i], stepTimeout |-> stepTimeout[i],
     pc |-> pc[i], cursor |-> cursor[i], answered |-> answered[i],
     valueToPropose |-> valueToPropose[i],
     reentered |-> reentered[i], emitted |-> emitted[i]]

\* Write closure c back as node i's; `others` is the message store of the
\* other nodes after the step.
Commit(i, c, others) ==
    /\ state' = [state EXCEPT ![i] = c.state]
    /\ messages' = [others EXCEPT ![i] = c.messages]
    /\ consensusRunning' = [consensusRunning EXCEPT ![i] = c.consensusRunning]
    /\ stepTimeout' = [stepTimeout EXCEPT ![i] = c.stepTimeout]
    /\ pc' = [pc EXCEPT ![i] = c.pc]
    /\ cursor' = [cursor EXCEPT ![i] = c.cursor]
    /\ answered' = [answered EXCEPT ![i] = c.answered]
    /\ valueToPropose' = [valueToPropose EXCEPT ![i] = c.valueToPropose]
    /\ reentered' = [reentered EXCEPT ![i] = c.reentered]
    /\ emitted' = [emitted EXCEPT ![i] = c.emitted]

Config == <<N, F, isFaulty, initialValue>>

UnavailableOnlyFaulty(i, st) == isFaulty[i]
UnavailableOnlyKilled(i, st) == st.killed

\* if (state.killed || isFaulty): the test that opens broadcastMessage,
\* benOrStep, POST /message and GET /start (lines 44, 65, 229, 253)
Unavailable(i, st) == st.killed \/ isFaulty[i]

\* ------------------------------------------------------ broadcastMessage
\* for (let i = 0; i < N; i++) if (i !== nodeId): the first index >= from
\* that is not the node itself (N or more: the loop is over)
NextPeer(i, from) == IF from = i THEN from + 1 ELSE from

\* The message a broadcast of benOrStep carries (built at the call).
Outgoing(i, c, phase) ==
    Message(phase, i, c.state.k, IF phase = "R" THEN c.state.x ELSE c.valueToPropose)

\* The code after `await broadcastMessage(...)`: the node's own message is
\* pushed into its bucket and the round window (setTimeout 100) is awaited.
AfterBroadcast(i, c, phase) ==
    IF phase = "R"
    THEN [c EXCEPT !.messages = PushR(@, c.state.k, Outgoing(i, c, "R")),
                   !.pc = "awaitR"]
    ELSE [c EXCEPT !.messages = PushP(@, c.state.k, Outgoing(i, c, "P")),
                   !.pc = "awaitP"]

\* broadcastMessage up to its first await: nothing is sent by a killed or
\* faulty node or when there is no peer; else the first fetch is in flight.
BroadcastMessage(i, c, phase) ==
    LET called == [c EXCEPT !.emitted = Push(@, <<c.state.k, phase>>)]
    IN IF Unavailable(i, c.state) \/ NextPeer(i, 0) >= N
       THEN AfterBroadcast(i, called, phase)
       ELSE [called EXCEPT !.pc = IF phase = "R" THEN "broadcastR" ELSE "broadcastP",
                           !.cursor = NextPeer(i, 0),
                           !.answered = FALSE]

\* ------------------------------------------------------------- benOrStep
DecidedGuardOff(c) == FALSE

\* if (state.decided === true && F <= N/2) return
DecidedGuard(c) == c.state.decided = "true" /\ ~FaultBoundViolated

\* if (consensusRunning && !state.killed) stepTimeout = setTimeout(benOrStep, ..)
Reschedule(c) ==
    IF c.consensusRunning /\ ~c.state.killed
    THEN [c EXCEPT !.stepTimeout = "pending"]
    ELSE c

\* benOrStep from its invocation to its first suspension (or its return).
BenOrStep(i, c) ==
    IF Unavailable(i, c.state) THEN c
    ELSE IF FaultBoundViolated /\ ~isFaulty[i]
    THEN Reschedule([c EXCEPT !.state.decided = "false",
                              !.state.k = ForceK(@)])
    ELSE IF DecidedGuard(c) THEN c
    ELSE LET kk == IF Falsy(c.state.k) THEN 0 ELSE c.state.k
             c1 == [c EXCEPT !.state.k = kk,
                             !.messages = Ensure(@, kk),
                             !.reentered = @ \/ c.pc # "idle"]
         IN BroadcastMessage(i, c1, "R")

\* Phase 2, lines 114-128: the value proposed after the R window; `bit` is
\* the outcome of Math.random() < 0.5 ? 0 : 1.
ProposeFromR(c, bit) ==
    LET bucket == c.messages[c.state.k]
        count0 == CountV(bucket.r, "0")
        count1 == CountV(bucket.r, "1")
    IN IF 2 * count0 > N THEN "0"
       ELSE IF 2 * count1 > N THEN "1"
       ELSE bit

\* The R window is over: propose, broadcast P.
AfterRWindow(i, c, bit) ==
    BroadcastMessage(i, [c EXCEPT !.valueToPropose = ProposeFromR(c, bit)], "P")

ResolveOneFirst(st, count0P, count1P, bit) ==
    IF count1P >= N - F THEN [st EXCEPT !.x = "1", !.decided = "true"]
    ELSE IF count0P >= N - F THEN [st EXCEPT !.x = "0", !.decided = "true"]
    ELSE IF count1P >= F + 1 THEN [st EXCEPT !.x = "1", !.decided = "false"]
    ELSE IF count0P >= F + 1 THEN [st EXCEPT !.x = "0", !.decided = "false"]
    ELSE [st EXCEPT !.x = bit, !.decided = "false"]

\* lines 163-192: the new (x, decided) from the P counts
ResolveFromP(st, count0P, count1P, bit) ==
    LET threshold == N - F
    IN IF ~FaultBoundViolated
       THEN IF count0P >= threshold THEN [st EXCEPT !.x = "0", !.decided = "true"]
            ELSE IF count1P >= threshold THEN [st EXCEPT !.x = "1", !.decided = "true"]
            ELSE IF count0P >= F + 1 THEN [st EXCEPT !.x = "0"]
            ELSE IF count1P >= F + 1 THEN [st EXCEPT !.x = "1"]
            ELSE [st EXCEPT !.x = bit]
       ELSE LET xx == IF count0P >= F + 1 THEN "0"
                      ELSE IF count1P >= F + 1 THEN "1"
                      ELSE bit
            IN [st EXCEPT !.x = xx, !.decided = "false"]

NextKStuck(kk) == kk

NextKWrap(kk) == IF kk >= 1 THEN 0 ELSE kk + 1

\* lines 195-197: if (!(F > N/2 && state.k && state.k > 10)) state.k++
NextK(kk) ==
    IF ~(FaultBoundViolated /\ ~Falsy(kk) /\ kk > ForcedKFloor) THEN kk + 1 ELSE kk

PruneLate(store, kk) ==
    [x \in {y \in DOMAIN store : ~(y < kk - 2)} |-> store[x]]

\* lines 202-208: delete every bucket with key < state.k - 1
Prune(store, kk) ==
    [x \in {y \in DOMAIN store : ~(y < kk - 1)} |-> store[x]]

SingleNodeNever == FALSE

\* if (N === 1)
SingleNode == N = 1

\* The P window is over, lines 149-215.
AfterPWindow(i, c, bit) ==
    LET bucket == c.messages[c.state.k]
        count0P == CountV(bucket.p, "0")
        count1P == CountV(bucket.p, "1")
    IN IF SingleNode
       THEN [c EXCEPT !.state.decided = "true", !.pc = "idle"]
       ELSE LET s1 == ResolveFromP(c.state, count0P, count1P, bit)
                s2 == [s1 EXCEPT !.k = NextK(@)]
            IN Reschedule([c EXCEPT !.state = s2,
                                    !.messages = Prune(@, s2.k),
                                    !.pc = "idle"])

\* ---------------------------------------------------------- POST /message
\* The store of node j after the handler has run on message m.
OnMessage(j, m) ==
    IF Unavailable(j, state[j])
    THEN messages[j]
    ELSE IF m.type = "R" THEN PushR(Ensure(messages[j], m.k), m.k, m)
         ELSE IF m.type = "P" THEN PushP(Ensure(messages[j], m.k), m.k, m)
         ELSE Ensure(messages[j], m.k)

\* ---------------------------------------------------------------- actions
\* The closure variables of every node right after node(...) has run.
InitRest ==
    /\ state = [i \in 0 .. (N - 1) |-> InitState(i)]
    /\ messages = [i \in 0 .. (N - 1) |-> EmptyStore]
    /\ consensusRunning = [i \in 0 .. (N - 1) |-> FALSE]
    /\ stepTimeout = [i \in 0 .. (N - 1) |-> "null"]
    /\ pc = [i \in 0 .. (N - 1) |-> "idle"]
    /\ cursor = [i \in 0 .. (N - 1) |-> 0]
    /\ answered = [i \in 0 .. (N - 1) |-> FALSE]
    /\ valueToPropose = [i \in 0 .. (N - 1) |-> Unknown]
    /\ injected = 0
    /\ reentered = [i \in 0 .. (N - 1) |-> FALSE]
    /\ emitted = [i \in 0 .. (N - 1) |-> EmptyBag]

Init ==
    /\ N \in 1 .. MaxN
    /\ F \in 0 .. N
    /\ isFaulty \in [0 .. (N - 1) -> BOOLEAN]
    /\ initialValue \in [0 .. (N - 1) -> Values]
    /\ InitRest

\* GET /start, with `ready` the value nodesAreReady() returns
StartBody(i, c, ready) ==
    IF c.consensusRunning THEN c
    ELSE LET c1 == [c EXCEPT !.consensusRunning = TRUE]
             c2 == IF FaultBoundViolated /\ ~isFaulty[i]
                   THEN [c1 EXCEPT !.state.k = ForcedK, !.state.decided = "false"]
                   ELSE c1
         IN IF ready THEN BenOrStep(i, c2) ELSE c2

StartHandlerOpen(i, c, ready) == StartBody(i, c, ready)

\* GET /start, the whole handler: a killed or faulty node answers 500
StartHandler(i, c, ready) ==
    IF Unavailable(i, c.state) THEN c ELSE StartBody(i, c, ready)

Start(i, ready) ==
    /\ Commit(i, StartHandler(i, Closure(i), ready), messages)
    /\ UNCHANGED <<Config, injected>>

StopBodyToggle(c) ==
    [c EXCEPT !.state.killed = TRUE,
              !.consensusRunning = FALSE,
              !.stepTimeout = IF @ # "null" THEN "null" ELSE "pending"]

\* GET /stop, the whole handler
StopBody(c) ==
    [c EXCEPT !.state.killed = TRUE,
              !.consensusRunning = FALSE,
              !.stepTimeout = IF @ # "null" THEN "null" ELSE @]

Stop(i) ==
    /\ Commit(i, StopBody(Closure(i)), messages)
    /\ UNCHANGED <<Config, injected>>

\* GET /getState: the body of the response in the current state
GetStateResponse(i) ==
    IF FaultBoundViolated /\ ~isFaulty[i]
    THEN [killed |-> state[i].killed,
          x |-> IF state[i].x # Null THEN state[i].x ELSE "0",
          decided |-> "false",
          k |-> ForcedK]
    ELSE state[i]

\* GET /getState: what the handler does to the node
GetState(i) ==
    /\ IF FaultBoundViolated /\ ~isFaulty[i]
       THEN state' = [state EXCEPT ![i].decided = "false", ![i].k = ForceK(@)]
       ELSE UNCHANGED state
    /\ UNCHANGED <<Config, messages, consensusRunning, stepTimeout, pc, cursor,
                   answered, valueToPropose, injected, reentered, emitted>>

\* The scheduled round trigger fires: stepTimeout's callback benOrStep runs.
TimerFire(i) ==
    /\ stepTimeout[i] = "pending"
    /\ FaultBoundViolated \/ state[i].k <= MaxRound
    /\ Commit(i, BenOrStep(i, [Closure(i) EXCEPT !.stepTimeout = "fired"]), messages)
    /\ UNCHANGED <<Config, injected>>

\* After a fetch of the broadcast loop: the next fetch, or the loop's end.
Advance(i, c) ==
    IF NextPeer(i, c.cursor + 1) >= N
    THEN AfterBroadcast(i, [c EXCEPT !.answered = FALSE],
                        IF c.pc = "broadcastR" THEN "R" ELSE "P")
    ELSE [c EXCEPT !.cursor = NextPeer(i, c.cursor + 1), !.answered = FALSE]

\* The request of the fetch in flight reaches peer cursor[i], whose
\* POST /message handler runs; node i is still suspended at `await fetch`.
FetchDeliver(i) ==
    /\ pc[i] \in {"broadcastR", "broadcastP"}
    /\ ~answered[i]
    /\ LET j == cursor[i]
           m == Outgoing(i, Closure(i), IF pc[i] = "broadcastR" THEN "R" ELSE "P")
       IN messages' = [messages EXCEPT ![j] = OnMessage(j, m)]
    /\ answered' = [answered EXCEPT ![i] = TRUE]
    /\ UNCHANGED <<Config, state, consensusRunning, stepTimeout, pc, cursor,
                   valueToPropose, injected, reentered, emitted>>

\* The peer's response arrives: `await fetch` returns and benOrStep resumes,
\* in a later turn of node i's event loop than the peer's handler.
FetchDone(i) ==
    /\ pc[i] \in {"broadcastR", "broadcastP"}
    /\ answered[i]
    /\ Commit(i, Advance(i, Closure(i)), messages)
    /\ UNCHANGED <<Config, injected>>

\* The fetch in flight throws before its request has reached the peer
\* (catch: ignored), and benOrStep resumes.
FetchFail(i) ==
    /\ pc[i] \in {"broadcastR", "broadcastP"}
    /\ ~answered[i]
    /\ Commit(i, Advance(i, Closure(i)), messages)
    /\ UNCHANGED <<Config, injected>>

\* The R window's timer fires.
RWindow(i) ==
    /\ pc[i] = "awaitR"
    /\ \E bit \in Bits : Commit(i, AfterRWindow(i, Closure(i), bit), messages)
    /\ UNCHANGED <<Config, injected>>

\* The P window's timer fires.
PWindow(i) ==
    /\ pc[i] = "awaitP"
    /\ \E bit \in Bits : Commit(i, AfterPWindow(i, Closure(i), bit), messages)
    /\ UNCHANGED <<Config, injected>>

\* POST /message from outside the N nodes.
InjectedMessages ==
    {Message(t, s, kk, v) : t \in {"R", "P"}, s \in Nodes, kk \in {0, MaxRound}, v \in Values}

PostMessage(j, m) ==
    /\ injected < MaxInject
    /\ injected' = injected + 1
    /\ messages' = [messages EXCEPT ![j] = OnMessage(j, m)]
    /\ UNCHANGED <<Config, state, consensusRunning, stepTimeout, pc, cursor,
                   answered, valueToPropose, reentered, emitted>>

\* ------------------------------------------------------- specifications
DoStart == \E i \in Nodes, ready \in BOOLEAN : Start(i, ready)
DoStop == \E i \in Nodes : Stop(i)
DoGetState == \E i \in Nodes : GetState(i)
DoTimerFire == \E i \in Nodes : TimerFire(i)
DoFetchDeliver == \E i \in Nodes : FetchDeliver(i)
DoFetchDone == \E i \in Nodes : FetchDone(i)
DoFetchFail == \E i \in Nodes : FetchFail(i)
DoRWindow == \E i \in Nodes : RWindow(i)
DoPWindow == \E i \in Nodes : PWindow(i)
DoPostMessage == \E j \in Nodes, m \in InjectedMessages : PostMessage(j, m)

\* The N nodes and their control surface, fetches that are lost included;
\* messages come from peers only.
Next ==
    \/ DoStart
    \/ DoStop
    \/ DoGetState
    \/ DoTimerFire
    \/ DoFetchDeliver
    \/ DoFetchDone
    \/ DoFetchFail
    \/ DoRWindow
    \/ DoPWindow

Spec == Init /\ [][Next]_vars

\* The configurations with F > N/2, open to messages posted from outside.
\* A round never gets past the forced branch of benOrStep there (pc stays
\* "idle", part of NeverDecidesWhenBoundViolated), so the steps of a round
\* are not among the actions.
InitViolated == Init /\ FaultBoundViolated

NextViolated ==
    \/ DoStart
    \/ DoStop
    \/ DoGetState
    \/ DoTimerFire
    \/ DoPostMessage

SpecViolated == InitViolated /\ [][NextViolated]_vars

\* ------------------------------------------------------------------ C1
\* C1: with F > N/2 a non-faulty node's decided flag is false in every
\* reachable state and in every body GET /getState can return, whatever
\* starts, stops, posted messages, round triggers and inspections happened;
\* no round of the normal algorithm is ever in progress.
NeverDecidesWhenBoundViolated ==
    \A i \in Nodes :
        (FaultBoundViolated /\ ~isFaulty[i]) =>
            /\ state[i].decided = "false"
            /\ GetStateResponse(i).decided = "false"
            /\ pc[i] = "idle"

\* A non-faulty node under F > N/2 that was started, has a round trigger
\* pending after at least one has fired, and has recorded a posted message.
C1Witness ==
    \E i \in Nodes :
        /\ FaultBoundViolated /\ ~isFaulty[i]
        /\ consensusRunning[i] /\ stepTimeout[i] = "pending"
        /\ DOMAIN messages[i] # {}

\* ------------------------------------------------------------------ C9
\* C9: under F > N/2 a started non-faulty node whose benOrStep has run
\* holds, and reports, a round counter strictly greater than the one its
\* state was created with.
RoundAdvancesWhenBoundViolated ==
    \A i \in Nodes :
        (FaultBoundViolated /\ ~isFaulty[i] /\ stepTimeout[i] # "null") =>
            /\ state[i].k > InitK(i)
            /\ GetStateResponse(i).k > InitK(i)

\* The N nodes when every fetch succeeds and nobody is stopped: started
\* nodes run their rounds and every message reaches its peer.
NextReliable ==
    \/ DoStart
    \/ DoTimerFire
    \/ DoFetchDeliver
    \/ DoFetchDone
    \/ DoRWindow
    \/ DoPWindow

SpecReliable == Init /\ [][NextReliable]_vars

NonFaulty == {i \in Nodes : ~isFaulty[i]}
AtMostFFaulty == Cardinality(Nodes \ NonFaulty) <= F
Decided(i) == state[i].decided = "true"

\* ------------------------------------------------------------------ C2
\* C2 (agreement): with F <= N/2 and at most F faulty nodes, two non-faulty
\* nodes that have both decided hold the same currentValue.
Agreement ==
    (~FaultBoundViolated /\ AtMostFFaulty) =>
        \A i, j \in NonFaulty :
            (Decided(i) /\ Decided(j)) => state[i].x = state[j].x

\* ------------------------------------------------------------------ C3
\* C3 (validity): with F <= N/2 and at most F faulty nodes, if every
\* non-faulty node was created with the same value v in {0,1}, a non-faulty
\* node that has decided holds v.
Validity ==
    \A v \in Bits :
        (/\ ~FaultBoundViolated
         /\ AtMostFFaulty
         /\ \A i \in NonFaulty : initialValue[i] = v) =>
            \A i \in NonFaulty : Decided(i) => state[i].x = v

\* ------------------------------------------------------------------ C4
\* C4: a node that has decided holds 0 or 1 as its currentValue, never the
\* Unknown sentinel and never null.
DecidedValueIsBinary ==
    \A i \in Nodes : Decided(i) => state[i].x \in Bits

\* ------------------------------------------------------------------ C5
\* C5: once a node has decided, every later step leaves decided true and
\* currentValue as it was.
DecisionIsStable ==
    [][\A i \in Nodes :
          Decided(i) => (state'[i].decided = "true" /\ state'[i].x = state[i].x)]_vars

\* A decided node on which a scheduled round trigger has fired since, and
\* which was stopped after that.
C5Witness ==
    \E i \in Nodes :
        /\ Decided(i) /\ state[i].k >= 1
        /\ stepTimeout[i] = "fired"
        /\ \E j \in Nodes : j # i /\ state[j].killed

\* ----------------------------------------------------------------- C10
\* C10 as claimed: in every state in which a node's round is k+1 (it has
\* advanced from k), its message store holds no bucket for a round < k.
NoOldBucketEver ==
    \A i \in NonFaulty :
        (~FaultBoundViolated /\ state[i].k >= 1) =>
            \A r \in DOMAIN messages[i] : r >= state[i].k - 1

\* C10 as amended: right after the step that advances a node from round k
\* to k+1, its message store holds no bucket for a round < k.
NoOldBucketAfterAdvance ==
    [][\A i \in NonFaulty :
          (state'[i].k = state[i].k + 1) =>
              \A r \in DOMAIN messages'[i] : r >= state[i].k]_vars

\* A node that has advanced to round 2: it holds the bucket of round 1 and
\* no longer that of round 0, which it had filled.
C10Witness ==
    \E i \in NonFaulty :
        /\ ~FaultBoundViolated
        /\ state[i].k = 2
        /\ 1 \in DOMAIN messages[i]
        /\ 0 \notin DOMAIN messages[i]

\* ------------------------------------------------------------------ C8
\* One non-faulty or faulty node alone (N = 1, F = 0), open to messages
\* posted from outside.  The two round windows are timers nothing cancels:
\* once set they fire.
InitSingle == Init /\ N = 1 /\ F = 0

NextSingle ==
    \/ DoStart
    \/ DoStop
    \/ DoGetState
    \/ DoRWindow
    \/ DoPWindow
    \/ DoPostMessage

SpecSingle ==
    InitSingle /\ [][NextSingle]_vars /\ WF_vars(DoRWindow) /\ WF_vars(DoPWindow)

\* C8: with N = 1 a non-faulty node whose round has begun reaches
\* decided = true, and whenever it has decided its round counter is still 0
\* and its currentValue is the initial value; no peer message is needed.
SingleNodeDecidesInRoundZero ==
    /\ [](\A i \in NonFaulty :
            Decided(i) => (state[i].k = 0 /\ state[i].x = initialValue[i]))
    /\ ((~isFaulty[0] /\ pc[0] # "idle") ~> Decided(0))

\* The single node has decided in round 0 with no message but its own two.
C8Witness ==
    /\ N = 1 /\ ~isFaulty[0] /\ Decided(0)
    /\ injected = 0
    /\ state[0].k = 0 /\ state[0].x = initialValue[0]
    /\ DOMAIN messages[0] = {0}

\* ------------------------------------------------------------------ C6
\* The N nodes when every fetch succeeds and nobody is stopped, with every
\* node's timers firing and fetches completing (weak fairness per node).
NodeStep(i) ==
    i \in Nodes /\ (\/ TimerFire(i) \/ FetchDeliver(i) \/ FetchDone(i)
                    \/ RWindow(i) \/ PWindow(i))

SpecFair ==
    Init /\ [][NextReliable]_vars /\ \A i \in 0 .. (MaxN - 1) : WF_vars(NodeStep(i))

\* Node i can never again count N - F P messages of a round: it needs at
\* least one from a peer, every peer is faulty or has decided (and so
\* returns at once from every later benOrStep, sending nothing), and no
\* peer's P message waits in a bucket of its current or a later round.
Stalled(i) ==
    /\ N - F >= 2
    /\ ~Decided(i)
    /\ \A j \in Nodes \ {i} : isFaulty[j] \/ (Decided(j) /\ pc[j] = "idle")
    /\ \A r \in DOMAIN messages[i] :
           r >= state[i].k => \A m \in DOMAIN messages[i][r].p : m.nodeId = i

\* Once stalled a node stays stalled, hence undecided, whatever happens.
StalledForEver ==
    [][\A i \in NonFaulty : (~FaultBoundViolated /\ Stalled(i)) => Stalled(i)']_vars

\* A round trigger the code would fire (lines 211-215) is held back by the
\* round bound of the model: the run goes on in the code and is cut here.
RunCut ==
    \E j \in Nodes :
        stepTimeout[j] = "pending" /\ ~FaultBoundViolated /\ state[j].k > MaxRound

\* C6 (termination): with F <= N/2 and at most F faulty nodes, a non-faulty
\* node that has been started (GET /start has set consensusRunning) and is
\* not stopped eventually decides, under fair scheduling of round steps and
\* message delivery.  Runs cut by the round bound are left out: a run that
\* violates the claim is one in which the code itself has nothing left to do.
Termination ==
    \A i \in 0 .. (MaxN - 1) :
        (/\ i \in Nodes
         /\ ~FaultBoundViolated /\ AtMostFFaulty
         /\ ~isFaulty[i] /\ ~state[i].killed /\ consensusRunning[i])
        ~> (\/ i \notin Nodes
            \/ Decided(i)
            \/ RunCut)

\* ------------------------------------------------------------------ C7
\* The scenario N = 4, F = 1, every node created with value 1; node 3 is
\* the faulty one.  Every fetch succeeds and nobody is stopped.
InitScenario ==
    /\ N = 4
    /\ F = 1
    /\ isFaulty = [i \in 0 .. 3 |-> i = 3]
    /\ initialValue = [i \in 0 .. 3 |-> "1"]
    /\ InitRest

\* The scheduled round trigger fires (as TimerFire), with the scenario's
\* round bound: the trigger of a node that has decided fires and benOrStep
\* returns at line 84; the trigger of an undecided node fires while its
\* round is within the bound.
ScenarioTimerFire(i) ==
    /\ stepTimeout[i] = "pending"
    /\ Decided(i) \/ state[i].k <= ScenarioMaxRound
    /\ Commit(i, BenOrStep(i, [Closure(i) EXCEPT !.stepTimeout = "fired"]), messages)
    /\ UNCHANGED <<Config, injected>>

DoScenarioTimerFire == \E i \in Nodes : ScenarioTimerFire(i)

NextScenario ==
    \/ DoStart
    \/ DoScenarioTimerFire
    \/ DoFetchDeliver
    \/ DoFetchDone
    \/ DoRWindow
    \/ DoPWindow

\* Every node's timers fire and fetches complete (weak fairness per node).
ScenarioStep(i) ==
    i \in Nodes /\ (\/ ScenarioTimerFire(i) \/ FetchDeliver(i) \/ FetchDone(i)
                    \/ RWindow(i) \/ PWindow(i))

SpecScenario ==
    InitScenario /\ [][NextScenario]_vars /\ \A i \in 0 .. 3 : WF_vars(ScenarioStep(i))

\* The same scenario with rounds 0 .. MaxRound.
SpecScenarioRounds == InitScenario /\ [][NextReliable]_vars

\* A node's round driver has run to completion: it has decided and has no
\* round in progress.
DriverDone(i) == Decided(i) /\ pc[i] = "idle"

\* A round trigger the code would fire is held back by the scenario's round
\* bound: the run goes on in the code and is cut here.
ScenarioCut ==
    \E j \in Nodes :
        stepTimeout[j] = "pending" /\ ~Decided(j) /\ state[j].k > ScenarioMaxRound

\* C7: in the scenario, a non-faulty node whose driver has run to
\* completion has decided = true and currentValue = 1, and once every
\* non-faulty node has been started (GET /start has set consensusRunning)
\* the drivers do run to completion: every non-faulty node comes to
\* decided = true with currentValue = 1.  Runs cut by the round bound are
\* left out of the second half.
ScenarioDecidesOne ==
    /\ [](\A i \in NonFaulty : DriverDone(i) => state[i].x = "1")
    /\ (\A i \in NonFaulty : consensusRunning[i])
       ~> (\/ \A i \in NonFaulty : Decided(i) /\ state[i].x = "1"
           \/ ScenarioCut)

\* ----------------------------------------------------------------- C11
\* The consensus state of node i: currentValue, decided, round.
ConsensusState(i) == <<state[i].x, state[i].decided, state[i].k>>

\* C11: once stop has been received (killed is set), no step changes the
\* node's currentValue, decided or round any more, also when the stop came
\* while a round was suspended in its R or P window.
NoMutationAfterStop ==
    [][\A i \in Nodes : state[i].killed => ConsensusState(i)' = ConsensusState(i)]_vars

\* ----------------------------------------------------------------- C12
\* The N nodes and their whole control surface when every fetch succeeds:
\* start, stop and inspect at any moment, round triggers, fetches, windows.
NextControl ==
    \/ DoStart
    \/ DoStop
    \/ DoGetState
    \/ DoTimerFire
    \/ DoFetchDeliver
    \/ DoFetchDone
    \/ DoRWindow
    \/ DoPWindow

SpecControl == Init /\ [][NextControl]_vars

\* A step in which node i starts a round: benOrStep gets past its guards
\* and calls broadcastMessage for the R message (lines 86-96).
RoundStarts(i) ==
    \/ pc[i] = "idle" /\ pc'[i] # "idle"
    \/ ~reentered[i] /\ reentered'[i]

\* C12: after stop has been received the node stays stopped and starts no
\* round any more: not from a trigger that was scheduled, not after the
\* round that was in progress at the stop, not from another start.
NoRoundStartsAfterStop ==
    [][\A i \in Nodes :
          state[i].killed =>
              (state'[i].killed /\ ~consensusRunning'[i] /\ ~RoundStarts(i))]_vars

\* A node stopped in round 1 or later with nothing in progress and nothing
\* scheduled: its trigger was cleared by the stop, or the round that was in
\* progress at the stop has ended without scheduling the next one.
C12Witness ==
    \E i \in NonFaulty :
        /\ ~FaultBoundViolated /\ N >= 2
        /\ state[i].killed /\ ~Decided(i)
        /\ state[i].k >= 1 /\ pc[i] = "idle" /\ stepTimeout[i] = "null"

\* ----------------------------------------------------------------- C13
\* What the claim compares of a node: consensus state, running flag,
\* pending round trigger (and the stopped flag).
NodeState(c) == <<c.state, c.consensusRunning, c.stepTimeout>>

\* C13: in every reachable state, handling stop twice in succession leaves
\* a node exactly as handling it once does, and a stop handled by a node
\* leaves it in a state a further stop does not change.
StopIsIdempotent ==
    /\ \A i \in Nodes :
           NodeState(StopBody(StopBody(Closure(i)))) = NodeState(StopBody(Closure(i)))
    /\ \A i \in Nodes :
           state[i].killed => StopBody(Closure(i)) = Closure(i)

\* A node that was stopped while its round trigger was pending and has
\* stayed as the stop left it, next to a node on which a stop would clear a
\* pending trigger and the running flag.
C13Witness ==
    \E i, j \in Nodes :
        /\ state[i].killed /\ state[i].k >= 1 /\ pc[i] = "idle"
        /\ ~state[j].killed /\ consensusRunning[j] /\ stepTimeout[j] = "pending"

\* ----------------------------------------------------------------- C14
\* The configurations with at least one faulty node, under every handler
\* and step: start, stop, inspect, messages from peers and from outside,
\* lost fetches.
InitFaulty == Init /\ \E i \in 0 .. (N - 1) : isFaulty[i]

NextFaulty ==
    \/ DoStart
    \/ DoStop
    \/ DoGetState
    \/ DoTimerFire
    \/ DoFetchDeliver
    \/ DoFetchDone
    \/ DoFetchFail
    \/ DoRWindow
    \/ DoPWindow
    \/ DoPostMessage

SpecFaulty == InitFaulty /\ [][NextFaulty]_vars

\* C14: a faulty node never transmits (no broadcast of it is ever in
\* progress, no round of it ever begins, nothing is scheduled), its round
\* counter stays the null it was created with, and its decided flag is
\* never true, in its state and in what GET /getState returns.
FaultyNodeIsInert ==
    \A i \in Nodes :
        isFaulty[i] =>
            /\ pc[i] = "idle" /\ stepTimeout[i] = "null" /\ ~consensusRunning[i]
            /\ state[i].k = NullK
            /\ state[i].decided # "true"
            /\ GetStateResponse(i).decided # "true"
            /\ messages[i] = EmptyStore

\* A faulty node that has been stopped, after a message was posted from
\* outside and a non-faulty peer has run a round and sent it its messages.
C14Witness ==
    \E i, j \in Nodes :
        /\ isFaulty[i] /\ state[i].killed
        /\ injected >= 1
        /\ ~isFaulty[j] /\ ~FaultBoundViolated /\ state[j].k >= 1

\* ----------------------------------------------------------------- C15
\* C15: on a stopped or faulty node, the GET /start handler (whatever
\* nodesAreReady() returns) and the POST /message handler (whatever the
\* message) leave everything as it is: consensus state, message store,
\* running flag, pending round trigger.
RejectedChangesNothing ==
    \A i \in Nodes :
        (state[i].killed \/ isFaulty[i]) =>
            /\ \A ready \in BOOLEAN : StartHandler(i, Closure(i), ready) = Closure(i)
            /\ \A m \in InjectedMessages : OnMessage(i, m) = messages[i]

\* Every node is stopped or faulty, at least one of each kind, a message
\* has been posted and every store is empty: the message went to a stopped
\* or faulty node.
C15Witness ==
    /\ injected >= 1
    /\ \A i \in Nodes : (state[i].killed \/ isFaulty[i]) /\ messages[i] = EmptyStore
    /\ \E i \in Nodes : ~isFaulty[i] /\ state[i].killed
    /\ \E i \in Nodes : isFaulty[i]

\* ----------------------------------------------------------------- C16
\* C16: no step lowers a node's round counter: not a round step in either
\* fault branch, not start, stop, inspect or the receipt of a message.
RoundNeverDecreases ==
    [][\A i \in Nodes : state'[i].k >= state[i].k]_vars

\* A node that has advanced twice, was inspected or not, and was stopped.
C16Witness ==
    \E i \in NonFaulty : state[i].k >= 2 /\ state[i].killed /\ pc[i] = "idle"

\* ----------------------------------------------------------------- C17
\* No round of node i has been executed or scheduled: nothing is in
\* progress, no trigger was ever set, round and decided are as created.
NoRoundYet(i) ==
    /\ pc[i] = "idle" /\ stepTimeout[i] = "null"
    /\ state[i].k = InitK(i) /\ state[i].decided = InitDecided(i)

\* Round execution has begun in closure c: a round is in progress, or (in
\* the forced branch) the next trigger is scheduled.
RoundExecutionBegun(c) == c.pc # "idle" \/ c.stepTimeout = "pending"

\* C17: on a non-faulty, non-stopped node with no round executed or
\* scheduled yet, a start at which nodesAreReady() is true begins round
\* execution, and a start at which it is false begins none.
StartBeginsRoundsWhenReady ==
    \A i \in NonFaulty :
        (~state[i].killed /\ NoRoundYet(i)) =>
            /\ RoundExecutionBegun(StartHandler(i, Closure(i), TRUE))
            /\ ~RoundExecutionBegun(StartHandler(i, Closure(i), FALSE))

\* ----------------------------------------------------------------- C18
\* The N nodes when every fetch succeeds and nobody is stopped, open to
\* messages posted from outside, which fill the buckets at will.
NextOpen ==
    \/ DoStart
    \/ DoTimerFire
    \/ DoFetchDeliver
    \/ DoFetchDone
    \/ DoRWindow
    \/ DoPWindow
    \/ DoPostMessage

SpecOpen == Init /\ [][NextOpen]_vars

\* Three nodes, node 2 faulty, F within the fault bound: with N = 3 a node's
\* own P message alone clears no threshold when F = 1 (the random bit), and
\* clears only the lower one when F = 0.
InitResolve ==
    /\ N = ResolveN
    /\ F \in {f \in 0 .. 1 : 2 * f <= N}
    /\ isFaulty = [i \in 0 .. (N - 1) |-> i = 2]
    /\ initialValue = [i \in 0 .. (N - 1) |-> IF i = 0 THEN "0" ELSE "1"]
    /\ InitRest

SpecResolve == InitResolve /\ [][NextOpen]_vars

\* The rule the claim states, on the P counts c0 and c1 and a random bit.
ReferenceResolve(c0, c1, bit) ==
    IF c0 >= N - F THEN <<"0", "true">>
    ELSE IF c1 >= N - F THEN <<"1", "true">>
    ELSE IF c0 >= F + 1 THEN <<"0", "false">>
    ELSE IF c1 >= F + 1 THEN <<"1", "false">>
    ELSE <<bit, "false">>

\* The step in which node i's Resolve runs: its P window is over.
Resolves(i) == pc[i] = "awaitP" /\ pc'[i] = "idle"

\* C18: with N >= 2 and F <= N/2, the (currentValue, decided) a Resolve
\* step leaves is what the reference rule gives on the counts of 0 and of 1
\* among the P messages of the round's bucket, for some random bit.
ResolveMatchesReference ==
    [][\A i \in Nodes :
          (Resolves(i) /\ N >= 2 /\ ~FaultBoundViolated) =>
              LET bucket == messages[i][state[i].k]
                  c0 == CountV(bucket.p, "0")
                  c1 == CountV(bucket.p, "1")
              IN \E bit \in Bits :
                     <<state'[i].x, state'[i].decided>> = ReferenceResolve(c0, c1, bit)]_vars

\* The random bit was used: a node has resolved a round (N >= 3, F <= N/2)
\* whose bucket holds fewer than F + 1 P messages for 0 and for 1, is left
\* undecided, and its new currentValue is the value of no P message there.
C18Witness ==
    \E i \in NonFaulty :
        /\ N >= 3 /\ ~FaultBoundViolated
        /\ pc[i] = "idle" /\ ~Decided(i) /\ state[i].k >= 1
        /\ (state[i].k - 1) \in DOMAIN messages[i]
        /\ CountV(messages[i][state[i].k - 1].p, "0") < F + 1
        /\ CountV(messages[i][state[i].k - 1].p, "1") < F + 1
        /\ CountV(messages[i][state[i].k - 1].p, state[i].x) = 0

\* ----------------------------------------------------------------- C19
\* C19: under F <= N/2, the step in which a node decides leaves its round
\* counter as it was: a node that decides in round k keeps round = k.
DecidingKeepsRound ==
    [][\A i \in Nodes :
          (~FaultBoundViolated /\ ~Decided(i) /\ Decided(i)') =>
              state'[i].k = state[i].k]_vars

\* ----------------------------------------------------------------- C20
\* The copies, in a bag of messages, of the messages whose sender is i.
OwnCopies(bag, i) == SumCopies(bag, {m \in DOMAIN bag : m.nodeId = i})

\* C20: whatever starts, stops and round triggers happen, a non-faulty
\* node calls broadcastMessage at most once per (round, phase), the call
\* for P of a round comes after the call for R of that round, no round of
\* it begins while another is suspended, and each of its buckets holds at
\* most one R and one P message recorded by the node itself.
OneMessagePerRoundAndPhase ==
    \A i \in NonFaulty :
        /\ \A key \in DOMAIN emitted[i] :
               /\ emitted[i][key] <= 1
               /\ key[2] = "P" => <<key[1], "R">> \in DOMAIN emitted[i]
        /\ ~reentered[i]
        /\ \A r \in DOMAIN messages[i] :
               /\ OwnCopies(messages[i][r].r, i) <= 1
               /\ OwnCopies(messages[i][r].p, i) <= 1

\* A node has run two whole rounds: R then P of round 0, R then P of
\* round 1, each once.
C20Witness ==
    \E i \in NonFaulty :
        /\ state[i].k >= 2
        /\ {<<0, "R">>, <<0, "P">>, <<1, "R">>, <<1, "P">>} \subseteq DOMAIN emitted[i]
        /\ 1 \in DOMAIN messages[i]
        /\ OwnCopies(messages[i][1].p, i) = 1

====
